---- MODULE Spec2Model ----
(***************************************************************************)
(* Model of pdf_merger.py: the pagination and composition engine           *)
(* (get_page_count, calculate_total_pages, create_final_report) together   *)
(* with the title derivation os.path.splitext(os.path.basename(p))[0].     *)
(*                                                                         *)
(* A path is a sequence of one-character strings.  The file system maps a  *)
(* path to the number of pages of the PDF stored there.  Every attempt to  *)
(* read a document may fail (an exception raised by open / PdfReader /     *)
(* page access / merge_page); the attempt's outcome is chosen by the       *)
(* environment at the step that makes the attempt.  So may the rendering   *)
(* of a cover and its add_page, which sit in the same try block.  When the *)
(* module global HAS_GUI is set, every except block shows a modal error    *)
(* dialog after logging; the dialog returns when it is closed, or raises   *)
(* (tkinter.TclError, e.g. no display), and that exception leaves          *)
(* create_final_report.                                                    *)
(***************************************************************************)
EXTENDS Integers, Sequences, FiniteSets, TLC

\* Largest page count of a stored document.
MaxPages == 2
\* Largest number of trial documents handed to create_final_report.
MaxTrials == 2

\* Sample document paths: "r/a.b.p" and "d.x/.t".
Paths ==
    { <<"r", "/", "a", ".", "b", ".", "p">>,
      <<"d", ".", "x", "/", ".", "t">> }

\* The sample path given as main document: "r/a.b.p".  A trial may be stored
\* at the same path or at the other one.
MainPath == <<"r", "/", "a", ".", "b", ".", "p">>

VARIABLES
    HAS_GUI,        \* module global: tkinter could be imported
    main_pdf,       \* argument: path of the main document
    trial_pdfs,     \* argument: ordered list of trial document paths
    fs,             \* file system: path -> page count of the stored PDF
    phase,          \* position of the run in create_final_report
    pc,             \* position inside the document being emitted
    count_ok,       \* per input (main first): did get_page_count read it
    total_pages,    \* local total_pages (line 166)
    current_page,   \* local current_page (line 170)
    writer,         \* pages added to the PdfWriter, in order
    rendered,       \* calls made to the overlay / cover renderers, in order
    i,              \* index of the trial being processed (1-based)
    j,              \* pages of the current document already appended
    errors,         \* logger.error records of create_final_report, in order
    result,         \* outcome of create_final_report: "pending", the
                    \* returned "None" / "output_path", or "raised"
    dest,           \* what exists at output_path
    write_calls     \* number of times the write block (lines 217-219) ran

vars == << HAS_GUI, main_pdf, trial_pdfs, fs, phase, pc, count_ok, total_pages,
           current_page, writer, rendered, i, j, errors, result, dest,
           write_calls >>

inputs == << HAS_GUI, main_pdf, trial_pdfs, fs >>

----------------------------------------------------------------------------
(* Title derivation: os.path.basename and os.path.splitext (posixpath).    *)

\* str.rfind, 1-based: the last index of c in p, 0 when c does not occur.
rfind(p, c) ==
    LET hits == { k \in 1..Len(p) : p[k] = c }
    IN  IF hits = {} THEN 0 ELSE CHOOSE k \in hits : \A h \in hits : h <= k

\* posixpath.basename: i = p.rfind('/') + 1; return p[i:].
basename(p) == SubSeq(p, rfind(p, "/") + 1, Len(p))

\* genericpath._splitext(p, '/', None, '.')[0]: the root is cut at the last
\* dot when that dot lies after the last separator and some character
\* between the separator and that dot is not a dot.
splitext_root(p) ==
    LET sepIndex == rfind(p, "/")
        dotIndex == rfind(p, ".")
    IN  IF /\ dotIndex > sepIndex
           /\ \E k \in (sepIndex + 1)..(dotIndex - 1) : p[k] # "."
        THEN SubSeq(p, 1, dotIndex - 1)
        ELSE p

\* Line 191: title = os.path.splitext(os.path.basename(pdf_path))[0].
trial_title(pdf_path) == splitext_root(basename(pdf_path))

----------------------------------------------------------------------------
(* Phase 1: counting.                                                      *)

\* get_page_count: len(reader.pages), or 0 when reading raises.
get_page_count(pdf_path, readable) ==
    IF readable THEN fs[pdf_path] ELSE 0

\* Faulty variant of count_trials: the cover page of a trial is not counted.
RECURSIVE count_trials_no_cover(_, _, _, _)
count_trials_no_cover(trials, ok, k, total) ==
    IF k > Len(trials)
    THEN total
    ELSE count_trials_no_cover(trials, ok, k + 1,
                               total + get_page_count(trials[k], ok[k + 1]))

\* The loop of calculate_total_pages (lines 87-89) from trial k on, with the
\* running total so far.  ok[1] is the main document, ok[k+1] is trial k.
RECURSIVE count_trials(_, _, _, _)
count_trials(trials, ok, k, total) ==
    IF k > Len(trials)
    THEN total
    ELSE count_trials(trials, ok, k + 1,
                      total + get_page_count(trials[k], ok[k + 1]) + 1)

calculate_total_pages(main, trials, ok) ==
    count_trials(trials, ok, 1, get_page_count(main, ok[1]))

----------------------------------------------------------------------------
(* Renderers and pages.                                                    *)

\* create_page_number_overlay(page_num, total_pages): the footer parameters.
create_page_number_overlay(page_num, total) ==
    [ kind |-> "footer", page_num |-> page_num, total |-> total,
      title |-> << >> ]

\* create_cover_page(title, page_num, total_pages).
create_cover_page(title, page_num, total) ==
    [ kind |-> "cover", page_num |-> page_num, total |-> total,
      title |-> title ]

\* A source page with its footer overlay merged on (page.merge_page).
merge_page(source, index, overlay) ==
    [ kind |-> "body", src |-> source, idx |-> index,
      page_num |-> overlay.page_num, total |-> overlay.total,
      title |-> << >> ]

\* The page of a cover document, as added to the writer for trial t.
cover_page(t, cover) ==
    [ kind |-> "cover", src |-> t, idx |-> 0,
      page_num |-> cover.page_num, total |-> cover.total,
      title |-> cover.title ]

\* After trial i: the next trial of the for loop, or the write block.
next_trial ==
    IF i < Len(trial_pdfs)
    THEN /\ phase' = "EmittingTrials"
         /\ i' = i + 1
         /\ pc' = "cover"
         /\ j' = 0
    ELSE /\ phase' = "Serializing"
         /\ i' = i
         /\ pc' = "write"
         /\ j' = 0

----------------------------------------------------------------------------
\* return None.
return_None ==
    /\ result' = "None"
    /\ phase' = "FailedFatal"
    /\ pc' = "done"

----------------------------------------------------------------------------
Init ==
    /\ HAS_GUI \in BOOLEAN
    /\ main_pdf = MainPath
    /\ trial_pdfs \in UNION { [1..n -> Paths] : n \in 0..MaxTrials }
    /\ fs \in [Paths -> 0..MaxPages]
    /\ phase = "NotStarted"
    /\ pc = "start"
    /\ count_ok = << >>
    /\ total_pages = 0
    /\ current_page = 1
    /\ writer = << >>
    /\ rendered = << >>
    /\ i = 0
    /\ j = 0
    /\ errors = << >>
    /\ result = "pending"
    /\ dest = "absent"
    /\ write_calls = 0

\* Line 163: the run begins.
Start ==
    /\ phase = "NotStarted"
    /\ phase' = "CountingPages"
    /\ pc' = "count"
    /\ UNCHANGED << inputs, count_ok, total_pages, current_page, writer,
                    rendered, i, j, errors, result, dest, write_calls >>

\* Lines 166-170: total_pages is computed, the writer and counter are set up.
CountPages ==
    /\ phase = "CountingPages"
    /\ \E ok \in [1..(Len(trial_pdfs) + 1) -> BOOLEAN] :
          /\ count_ok' = ok
          /\ total_pages' = calculate_total_pages(main_pdf, trial_pdfs, ok)
    /\ writer' = << >>
    /\ current_page' = 1
    /\ phase' = "EmittingMain"
    /\ pc' = "open"
    /\ UNCHANGED << inputs, rendered, i, j, errors, result, dest, write_calls >>

\* Line 175: PdfReader(main_pdf) succeeds.
OpenMain ==
    /\ phase = "EmittingMain"
    /\ pc = "open"
    /\ pc' = "pages"
    /\ j' = 0
    /\ UNCHANGED << inputs, phase, count_ok, total_pages, current_page, writer,
                    rendered, i, errors, result, dest, write_calls >>

\* Lines 176-182: one iteration of the main loop.
MainPage ==
    /\ phase = "EmittingMain"
    /\ pc = "pages"
    /\ j < fs[main_pdf]
    /\ LET overlay == create_page_number_overlay(current_page, total_pages)
       IN  /\ rendered' = Append(rendered, overlay)
           /\ writer' = Append(writer, merge_page(0, j + 1, overlay))
    /\ current_page' = current_page + 1
    /\ j' = j + 1
    /\ UNCHANGED << inputs, phase, pc, count_ok, total_pages, i, errors,
                    result, dest, write_calls >>

\* Lines 183-187: an exception while opening the main document ("open"),
\* before the overlay of its next page exists ("read": fetching the page or
\* rendering the overlay raised) or after it ("merge": merge_page or
\* add_page raised).  The error is logged; without a GUI None is returned at
\* once, with a GUI the error dialog of line 186 is shown first.
MainFail ==
    /\ phase = "EmittingMain"
    /\ \E at \in {"open", "read", "merge"} :
          /\ \/ at = "open" /\ pc = "open"
             \/ at \in {"read", "merge"} /\ pc = "pages" /\ j < fs[main_pdf]
          /\ rendered' =
                IF at = "merge"
                THEN Append(rendered,
                            create_page_number_overlay(current_page, total_pages))
                ELSE rendered
          /\ errors' = Append(errors, [ what |-> "main", trial |-> 0, at |-> at ])
    /\ IF HAS_GUI
       THEN pc' = "dialog" /\ UNCHANGED << phase, result >>
       ELSE return_None
    /\ UNCHANGED << inputs, count_ok, total_pages, current_page, writer, i, j,
                    dest, write_calls >>

\* Lines 186-187: the error dialog of the main handler is closed; None is
\* returned.
MainDialogClosed ==
    /\ phase = "EmittingMain"
    /\ pc = "dialog"
    /\ return_None
    /\ UNCHANGED << inputs, count_ok, total_pages, current_page, writer,
                    rendered, i, j, errors, dest, write_calls >>

\* The main loop is exhausted: control reaches the for loop of line 190.
MainDone ==
    /\ phase = "EmittingMain"
    /\ pc = "pages"
    /\ j = fs[main_pdf]
    /\ next_trial
    /\ UNCHANGED << inputs, count_ok, total_pages, current_page, writer,
                    rendered, errors, result, dest, write_calls >>

\* Faulty variant of TrialCover: current_page is not advanced past the cover.
TrialCover_no_increment ==
    /\ phase = "EmittingTrials"
    /\ pc = "cover"
    /\ LET cover == create_cover_page(trial_title(trial_pdfs[i]),
                                      current_page, total_pages)
       IN  /\ rendered' = Append(rendered, cover)
           /\ writer' = Append(writer, cover_page(i, cover))
    /\ pc' = "open"
    /\ UNCHANGED << inputs, phase, count_ok, total_pages, current_page, i, j,
                    errors, result, dest, write_calls >>

\* Lines 191-199: the cover of trial i is rendered and added.
TrialCover ==
    /\ phase = "EmittingTrials"
    /\ pc = "cover"
    /\ LET cover == create_cover_page(trial_title(trial_pdfs[i]),
                                      current_page, total_pages)
       IN  /\ rendered' = Append(rendered, cover)
           /\ writer' = Append(writer, cover_page(i, cover))
    /\ current_page' = current_page + 1
    /\ pc' = "open"
    /\ UNCHANGED << inputs, phase, count_ok, total_pages, i, j, errors, result,
                    dest, write_calls >>

\* Line 202: PdfReader(pdf_path) succeeds.
OpenTrial ==
    /\ phase = "EmittingTrials"
    /\ pc = "open"
    /\ pc' = "pages"
    /\ j' = 0
    /\ UNCHANGED << inputs, phase, count_ok, total_pages, current_page, writer,
                    rendered, i, errors, result, dest, write_calls >>

\* Lines 203-209: one iteration of the loop over the pages of trial i.
TrialPage ==
    /\ phase = "EmittingTrials"
    /\ pc = "pages"
    /\ j < fs[trial_pdfs[i]]
    /\ LET overlay == create_page_number_overlay(current_page, total_pages)
       IN  /\ rendered' = Append(rendered, overlay)
           /\ writer' = Append(writer, merge_page(i, j + 1, overlay))
    /\ current_page' = current_page + 1
    /\ j' = j + 1
    /\ UNCHANGED << inputs, phase, pc, count_ok, total_pages, i, errors,
                    result, dest, write_calls >>

\* Lines 210-213: an exception anywhere in the try block of trial i.
\* "cover": create_cover_page raised, no cover exists; "add": the cover was
\* rendered and add_page raised; "open": PdfReader(pdf_path) raised; "read":
\* fetching the next page or rendering its overlay raised; "merge": the
\* overlay was rendered and merge_page or add_page raised.  Nothing is added
\* to the writer and current_page is not advanced.  The error is logged;
\* without a GUI the for loop goes on at once, with a GUI the error dialog
\* of line 213 is shown first.
TrialFail ==
    /\ phase = "EmittingTrials"
    /\ \E at \in {"cover", "add", "open", "read", "merge"} :
          /\ \/ at \in {"cover", "add"} /\ pc = "cover"
             \/ at = "open" /\ pc = "open"
             \/ at \in {"read", "merge"} /\ pc = "pages" /\ j < fs[trial_pdfs[i]]
          /\ rendered' =
                CASE at = "merge" ->
                        Append(rendered,
                               create_page_number_overlay(current_page, total_pages))
                  [] at = "add" ->
                        Append(rendered,
                               create_cover_page(trial_title(trial_pdfs[i]),
                                                 current_page, total_pages))
                  [] OTHER -> rendered
          /\ errors' = Append(errors, [ what |-> "trial", trial |-> i, at |-> at ])
    /\ IF HAS_GUI
       THEN pc' = "dialog" /\ UNCHANGED << phase, i, j >>
       ELSE next_trial
    /\ UNCHANGED << inputs, count_ok, total_pages, current_page, writer,
                    result, dest, write_calls >>

\* Line 213: the error dialog of the trial handler is closed; the for loop
\* goes on.
TrialDialogClosed ==
    /\ phase = "EmittingTrials"
    /\ pc = "dialog"
    /\ next_trial
    /\ UNCHANGED << inputs, count_ok, total_pages, current_page, writer,
                    rendered, errors, result, dest, write_calls >>

\* The pages of trial i are exhausted: the for loop goes on.
TrialDone ==
    /\ phase = "EmittingTrials"
    /\ pc = "pages"
    /\ j = fs[trial_pdfs[i]]
    /\ next_trial
    /\ UNCHANGED << inputs, count_ok, total_pages, current_page, writer,
                    rendered, errors, result, dest, write_calls >>

\* Lines 217-222: the destination is opened, the writer is written to it and
\* output_path is returned.
WriteOutput ==
    /\ phase = "Serializing"
    /\ pc = "write"
    /\ write_calls' = write_calls + 1
    /\ dest' = "complete"
    /\ result' = "output_path"
    /\ phase' = "Succeeded"
    /\ pc' = "done"
    /\ UNCHANGED << inputs, count_ok, total_pages, current_page, writer,
                    rendered, i, j, errors >>

\* Lines 223-227: open(output_path, "wb") raises (nothing is created), or it
\* creates the file and writer.write raises.  The handler does not remove
\* the file.  The error is logged; without a GUI None is returned at once,
\* with a GUI the error dialog of line 226 is shown first.
WriteFail ==
    /\ phase = "Serializing"
    /\ pc = "write"
    /\ write_calls' = write_calls + 1
    /\ \E at \in {"open", "write"} :
          /\ dest' = IF at = "open" THEN dest ELSE "partial"
          /\ errors' = Append(errors, [ what |-> "output", trial |-> 0, at |-> at ])
    /\ IF HAS_GUI
       THEN pc' = "dialog" /\ UNCHANGED << phase, result >>
       ELSE return_None
    /\ UNCHANGED << inputs, count_ok, total_pages, current_page, writer,
                    rendered, i, j >>

\* Lines 226-227: the error dialog of the write handler is closed; None is
\* returned.
WriteDialogClosed ==
    /\ phase = "Serializing"
    /\ pc = "dialog"
    /\ return_None
    /\ UNCHANGED << inputs, count_ok, total_pages, current_page, writer,
                    rendered, i, j, errors, dest, write_calls >>

\* Lines 186, 213, 226: messagebox.showerror raises inside the except block.
\* No enclosing try is left in create_final_report: the exception leaves the
\* function, which returns nothing; the rest of the run is skipped.
ShowErrorRaises ==
    /\ pc = "dialog"
    /\ result' = "raised"
    /\ phase' = "FailedFatal"
    /\ pc' = "done"
    /\ UNCHANGED << inputs, count_ok, total_pages, current_page, writer,
                    rendered, i, j, errors, dest, write_calls >>

Next ==
    \/ Start
    \/ CountPages
    \/ OpenMain
    \/ MainPage
    \/ MainFail
    \/ MainDialogClosed
    \/ MainDone
    \/ TrialCover
    \/ OpenTrial
    \/ TrialPage
    \/ TrialFail
    \/ TrialDialogClosed
    \/ TrialDone
    \/ WriteOutput
    \/ WriteFail
    \/ WriteDialogClosed
    \/ ShowErrorRaises

Spec == Init /\ [][Next]_vars

----------------------------------------------------------------------------
(* Vocabulary of the properties.                                           *)

TrialCount == Len(trial_pdfs)

\* total_pages has been computed.
Counted == phase \notin {"NotStarted", "CountingPages"}

\* An error of kind w ("main", "trial", "output") was logged.
HasError(w) == \E k \in 1..Len(errors) : errors[k].what = w

\* The except block of trial t ran.
TrialFailed(t) ==
    \E k \in 1..Len(errors) : errors[k].what = "trial" /\ errors[k].trial = t

\* Positions in the output of the cover / the body pages of document t.
Covers(t) ==
    { k \in 1..Len(writer) : writer[k].kind = "cover" /\ writer[k].src = t }
BodyPages(t) ==
    { k \in 1..Len(writer) : writer[k].kind = "body" /\ writer[k].src = t }

\* The for loop over the trials has run to its end.
LoopFinished ==
    \/ phase \in {"Serializing", "Succeeded"}
    \/ phase = "FailedFatal" /\ HasError("output")

\* The run has got past the cover of trial t (lines 196-199).
Attempted(t) == t < i \/ (t = i /\ pc # "cover")

\* The run has ended: a value was returned or an exception left the function.
Terminal == phase \in {"Succeeded", "FailedFatal"}

\* The page numbers of a sequence of pages or renderer calls.
Numbers(seq) == [ k \in 1..Len(seq) |-> seq[k].page_num ]

\* The count reported for the main document / for trial k in Phase 1.
MainCount == IF count_ok[1] THEN fs[main_pdf] ELSE 0
TrialCountOf(k) == IF count_ok[k + 1] THEN fs[trial_pdfs[k]] ELSE 0

RECURSIVE SumTrialCounts(_)
SumTrialCounts(k) ==
    IF k = 0 THEN 0 ELSE SumTrialCounts(k - 1) + TrialCountOf(k)

\* s without its k-th element.
RemoveAt(s, k) == SubSeq(s, 1, k - 1) \o SubSeq(s, k + 1, Len(s))

\* The title the specification prescribes for a sample path: the file name
\* with the directory stripped and the extension removed.
ExpectedTitle(p) ==
    IF p = <<"r", "/", "a", ".", "b", ".", "p">> THEN <<"a", ".", "b">>
    ELSE IF p = <<"d", ".", "x", "/", ".", "t">> THEN <<".", "t">>
    ELSE << >>

----------------------------------------------------------------------------
\* C1: once Phase 1 has run, total_pages equals count(main) plus the sum of
\* the trials' counts plus one per trial, where the count of a document that
\* could not be read is 0; the extra page is added for unreadable trials too.
C1_TotalFormula ==
    Counted =>
        total_pages = MainCount + SumTrialCounts(TrialCount) + TrialCount

\* C1 witness: a total computed over a readable non-empty main document, an
\* unreadable non-empty trial and a readable non-empty trial.
C1_Witness ==
    /\ Counted
    /\ count_ok[1] /\ fs[main_pdf] > 0
    /\ \E a, b \in 1..TrialCount :
          /\ ~count_ok[a + 1] /\ fs[trial_pdfs[a]] > 0
          /\ count_ok[b + 1] /\ fs[trial_pdfs[b]] > 0

----------------------------------------------------------------------------
\* C2 (as claimed): in every run that returns output_path, the page numbers
\* passed to the footer and cover renderers, in call order, are exactly
\* 1, 2, ..., total_pages.
C2_NumbersAreOneToTotal ==
    result = "output_path" =>
        Numbers(rendered) = [ k \in 1..total_pages |-> k ]

----------------------------------------------------------------------------
\* C3 (as claimed): every trial the run has got past has exactly one cover in
\* the output (and a trial not yet reached has none), the cover carries the
\* title derived from the trial's file name, is numbered with its position,
\* and lies immediately before the trial's first body page.
C3_OneCoverPerTrial ==
    \A t \in 1..TrialCount :
        /\ Cardinality(Covers(t)) = IF Attempted(t) THEN 1 ELSE 0
        /\ \A k \in Covers(t) :
              /\ writer[k].title = ExpectedTitle(trial_pdfs[t])
              /\ writer[k].page_num = k
        /\ \A k \in BodyPages(t) :
              /\ \A c \in Covers(t) : c < k
              /\ writer[k].idx = 1 => (k - 1) \in Covers(t)

----------------------------------------------------------------------------
\* C4 (as claimed): once the main document has failed, no trial is processed
\* and the destination is never opened or written, and the run ends by
\* returning None.
C4_MainFailureIsFatal ==
    HasError("main") =>
        /\ Terminal => result = "None"
        /\ ~Terminal => (phase = "EmittingMain" /\ pc = "dialog")
        /\ dest = "absent"
        /\ write_calls = 0
        /\ i = 0
        /\ ~HasError("trial")
        /\ \A k \in 1..Len(writer) : writer[k].src = 0
        /\ \A k \in 1..Len(rendered) : rendered[k].kind = "footer"

----------------------------------------------------------------------------
\* C5 (as claimed): a failure while loading or iterating a trial does not
\* abort the run and removes nothing from the output; the run never ends in
\* the trial phase, every trial is processed in the caller's order and the
\* write follows the last one.  When the loop has ended, every trial that did
\* not fail has its cover followed by all its pages, and a trial that could be
\* read neither in Phase 1 nor at emission has added 0 + 1 to the total and
\* exactly its cover to the output.  The claim is about failures of loading
\* and iterating, so runs in which a cover could not be made are left aside.
OnlyLoadErrors ==
    \A k \in 1..Len(errors) :
        errors[k].what = "trial" => errors[k].at \in {"open", "read", "merge"}

C5_State ==
    OnlyLoadErrors =>
    /\ LoopFinished =>
          /\ \A t \in 1..TrialCount :
                ~TrialFailed(t) =>
                    /\ Cardinality(Covers(t)) = 1
                    /\ Cardinality(BodyPages(t)) = fs[trial_pdfs[t]]
          /\ \A a, b \in 1..Len(writer) :
                a < b => writer[a].src <= writer[b].src
    /\ (Terminal /\ ~HasError("main")) =>
          (write_calls = 1 /\ i = TrialCount)
    /\ \A t \in 1..TrialCount :
          ((\E k \in 1..Len(errors) :
                errors[k] = [ what |-> "trial", trial |-> t, at |-> "open" ])
           /\ ~count_ok[t + 1]) =>
              /\ Cardinality({ k \in 1..Len(writer) : writer[k].src = t }) = 1
              /\ total_pages =
                    calculate_total_pages(main_pdf, RemoveAt(trial_pdfs, t),
                                          RemoveAt(count_ok, t + 1)) + 1

C5_Step ==
    OnlyLoadErrors' =>
    /\ SubSeq(writer', 1, Len(writer)) = writer
    /\ (Len(errors') > Len(errors) /\ errors'[Len(errors')].what = "trial")
          => (writer' = writer /\ result' = "pending" /\ dest' = dest)
    /\ phase = "EmittingTrials" =>
          \/ phase' = "EmittingTrials" /\ i' = i
          \/ phase' = "EmittingTrials" /\ i' = i + 1 /\ pc' = "cover"
          \/ phase' = "Serializing" /\ i = TrialCount

C5_TrialFailureIsConfined == [] C5_State /\ [][C5_Step]_vars

----------------------------------------------------------------------------
\* C6 (as claimed): when the write of the output fails, the run ends by
\* returning None and no file, in particular no partially written file, is
\* left at the destination.
C6_NoFileAfterWriteFailure ==
    HasError("output") =>
        /\ Terminal => (result = "None" /\ phase = "FailedFatal")
        /\ dest = "absent"

----------------------------------------------------------------------------
\* C7 (as claimed): whenever the run returns output_path, the number of pages
\* appended to the output equals total_pages.
C7_AppendedEqualsTotal ==
    result = "output_path" => Len(writer) = total_pages

----------------------------------------------------------------------------
\* C8 (as claimed): every footer overlay and every cover rendered is given
\* 1 <= page_number <= total_pages.
C8_PageNumberWithinTotal ==
    \A k \in 1..Len(rendered) :
        /\ 1 <= rendered[k].page_num
        /\ rendered[k].page_num <= rendered[k].total

----------------------------------------------------------------------------
\* C9 (as claimed): the run moves through the phases in the order NotStarted,
\* CountingPages, EmittingMain, EmittingTrials(1..n), Serializing; it never
\* goes back, never retries a failed document, computes the total once,
\* attempts the write at most once and only after every trial was attempted,
\* and ends in exactly one of Succeeded and FailedFatal.  The main phase may
\* end the run (a main failure is fatal); the trial phase may not.
\* Termination is the two facts that every step advances a bounded position
\* and that a run can stop only in a terminal phase.
PhaseRank(ph) ==
    CASE ph = "NotStarted" -> 0
      [] ph = "CountingPages" -> 1
      [] ph = "EmittingMain" -> 2
      [] ph = "EmittingTrials" -> 3
      [] ph = "Serializing" -> 4
      [] ph = "Succeeded" -> 5
      [] ph = "FailedFatal" -> 5

PcRank(p) ==
    CASE p = "start" -> 0
      [] p = "count" -> 0
      [] p = "cover" -> 0
      [] p = "write" -> 0
      [] p = "done" -> 0
      [] p = "open" -> 1
      [] p = "pages" -> 2
      [] p = "dialog" -> 3

C9_Transition ==
    \/ phase = "NotStarted" /\ phase' = "CountingPages"
    \/ phase = "CountingPages" /\ phase' = "EmittingMain"
    \/ phase = "EmittingMain" /\ phase' = "EmittingMain"
    \/ phase = "EmittingMain" /\ phase' = "FailedFatal"
    \/ phase = "EmittingMain" /\ phase' = "EmittingTrials"
                              /\ i' = 1 /\ TrialCount >= 1
    \/ phase = "EmittingMain" /\ phase' = "Serializing" /\ TrialCount = 0
    \/ phase = "EmittingTrials" /\ phase' = "EmittingTrials" /\ i' = i
    \/ phase = "EmittingTrials" /\ phase' = "EmittingTrials"
                                /\ i' = i + 1 /\ pc' = "cover"
    \/ phase = "EmittingTrials" /\ phase' = "Serializing" /\ i = TrialCount
    \/ phase = "Serializing" /\ phase' = "Serializing"
    \/ phase = "Serializing" /\ phase' \in {"Succeeded", "FailedFatal"}

C9_Advances ==
    \/ PhaseRank(phase') > PhaseRank(phase)
    \/ /\ phase' = phase
       /\ \/ i' > i
          \/ i' = i /\ PcRank(pc') > PcRank(pc)
          \/ i' = i /\ pc' = pc /\ j' > j /\ j' <= MaxPages

C9_Step ==
    /\ C9_Transition
    /\ C9_Advances
    /\ total_pages' # total_pages => phase = "CountingPages"
    /\ write_calls' # write_calls =>
          phase = "Serializing" /\ write_calls = 0 /\ write_calls' = 1
    /\ dest' # dest => write_calls' # write_calls

C9_State ==
    /\ Terminal \/ ENABLED Next
    /\ write_calls <= 1
    /\ phase = "Serializing" => i = TrialCount
    /\ phase = "EmittingTrials" => i \in 1..TrialCount
    /\ phase = "Succeeded" <=> result = "output_path"
    /\ phase = "FailedFatal" <=> result \in {"None", "raised"}
    /\ \A a, b \in 1..Len(errors) :
          (a < b /\ errors[a].what = "trial") =>
              (errors[b].what # "main" /\
               (errors[b].what = "trial" => errors[a].trial < errors[b].trial))

C9_PhaseOrder == [] C9_State /\ [][C9_Step]_vars

----------------------------------------------------------------------------
\* C10: at every step current_page is the number of pages appended so far
\* plus one, and the number stamped on each appended page is its 1-based
\* position in the output; a step that logs an error appends nothing and
\* leaves current_page alone, a step that appends advances it by one.
C10_State ==
    /\ current_page = Len(writer) + 1
    /\ \A k \in 1..Len(writer) : writer[k].page_num = k

C10_Step ==
    /\ Len(errors') > Len(errors) =>
          (writer' = writer /\ current_page' = current_page)
    /\ Len(writer') > Len(writer) =>
          /\ Len(writer') = Len(writer) + 1
          /\ writer'[Len(writer')].page_num = current_page
          /\ current_page' = current_page + 1

C10_CounterIsPosition == [] C10_State /\ [][C10_Step]_vars

\* C10 witness: a trial failed part-way through its body pages and a later
\* trial's body page was appended after it.
C10_Witness ==
    \E t \in 1..TrialCount, u \in 1..TrialCount :
        /\ t < u
        /\ TrialFailed(t)
        /\ BodyPages(t) # {}
        /\ BodyPages(u) # {}

====
